---- MODULE Spec2Model ----
(***************************************************************************)
(* Model of the Ionizer bridge of pydase_service_base:                     *)
(*   ionizer_interface/rpc_interface.py  (RPCInterface, flatten_obj, ...)  *)
(*   ionizer_interface/ionizer_server.py (IonizerServer.notify_ionizer)    *)
(* and of its database helpers:                                            *)
(*   database/create_config.py, database/config.py and the session         *)
(*   classes of database/*_session.py                                      *)
(*                                                                         *)
(* Text (paths, names, enum member names) is a sequence of one-character   *)
(* strings, so that splitting, parsing and rendering are computed on the   *)
(* characters as the code computes them.                                   *)
(***************************************************************************)
EXTENDS Integers, Sequences, FiniteSets, TLC

VARIABLES
    service,     \* the live object tree (state_manager.service)
    cache,       \* state_manager.cache_value: name -> serialized object
    last,        \* the last operation: its inputs, its outcome, the state before it
    tree,        \* flattening: the serialized "value" mapping handed to flatten_obj_value
    flat,        \* flattening: the entries flatten_obj_value stored, in order
    route,       \* path texts: the segments of a path, its text and the parts parsed
    bus,         \* notification: the observers and the event being delivered
    conf,        \* create_config: the calls made, the last call and its outcome
    db,          \* database sessions: the session in use, its client, the servers
    pending      \* attribute assignments of the service its observer has not seen yet

vars == <<service, cache, last, tree, flat, route, bus, conf, db, pending>>

----------------------------------------------------------------------------
(* Bounds *)

\* wire integers offered to set_param range over -(MaxWire + 1)..MaxWire
MaxWire == 3

WireInts == (0 - MaxWire - 1)..MaxWire

----------------------------------------------------------------------------
(* Text *)

Dot == "."

Digits == <<"0", "1", "2", "3", "4", "5", "6", "7", "8", "9">>

DigitSet == {Digits[i] : i \in 1..10}

Letters ==
    {"a", "b", "c", "d", "e", "f", "g", "h", "i", "j", "k", "l", "m", "n", "o",
     "p", "q", "r", "s", "t", "u", "v", "w", "x", "y", "z", "_",
     "A", "B", "C", "D", "E", "F", "G", "H", "I", "J", "K", "L", "M", "N", "O",
     "P", "Q", "R", "S", "T", "U", "V", "W", "X", "Y", "Z"}

\* the characters the regular expression class \w matches
WordChars == Letters \cup DigitSet

\* str(n) for a natural number n
RECURSIVE NatText(_)
NatText(n) ==
    IF n < 10 THEN <<Digits[n + 1]>>
    ELSE NatText(n \div 10) \o <<Digits[(n % 10) + 1]>>

\* text.split("."): the pieces between the dots, empty pieces included
RECURSIVE SplitFrom(_, _, _)
SplitFrom(t, i, cur) ==
    IF i > Len(t) THEN <<cur>>
    ELSE IF t[i] = Dot THEN <<cur>> \o SplitFrom(t, i + 1, <<>>)
    ELSE SplitFrom(t, i + 1, Append(cur, t[i]))

Split(t) == SplitFrom(t, 1, <<>>)

\* ".".join(parts)
RECURSIVE Join(_)
Join(parts) ==
    IF parts = <<>> THEN <<>>
    ELSE IF Len(parts) = 1 THEN parts[1]
    ELSE parts[1] \o <<Dot>> \o Join(Tail(parts))

\* ", ".join(parts)
RECURSIVE JoinComma(_)
JoinComma(parts) ==
    IF parts = <<>> THEN <<>>
    ELSE IF Len(parts) = 1 THEN parts[1]
    ELSE parts[1] \o <<",", " ">> \o JoinComma(Tail(parts))

\* parts[:-1]
ButLast(s) == SubSeq(s, 1, Len(s) - 1)

\* parts[-1]
Last(s) == s[Len(s)]

\* length of the longest run of characters of `set` that starts at t[i]
RECURSIVE RunLen(_, _, _)
RunLen(t, i, set) ==
    IF i <= Len(t) /\ t[i] \in set THEN 1 + RunLen(t, i + 1, set) ELSE 0

\* length of the longest run of characters other than c that starts at t[i]
RECURSIVE RunLenNot(_, _, _)
RunLenNot(t, i, c) ==
    IF i <= Len(t) /\ t[i] # c THEN 1 + RunLenNot(t, i + 1, c) ELSE 0

\* length of the token the pattern  \w+ | \[\d+\] | \["[^"]*"\]  matches at
\* position i of t, 0 when it matches nothing there
TokenLen(t, i) ==
    LET w == RunLen(t, i, WordChars)
        d == RunLen(t, i + 1, DigitSet)
        k == RunLenNot(t, i + 2, "\"")
    IN  IF w > 0 THEN w
        ELSE IF t[i] = "[" /\ d > 0 /\ i + 1 + d <= Len(t) /\ t[i + 1 + d] = "]"
             THEN d + 2
        ELSE IF /\ t[i] = "["
                /\ i + 1 <= Len(t) /\ t[i + 1] = "\""
                /\ i + 3 + k <= Len(t)
                /\ t[i + 2 + k] = "\"" /\ t[i + 3 + k] = "]"
             THEN k + 4
        ELSE 0

\* re.findall(pattern, path): the tokens in order, unmatched characters skipped
RECURSIVE FindAll(_, _)
FindAll(t, i) ==
    IF i > Len(t) THEN <<>>
    ELSE LET n == TokenLen(t, i)
         IN  IF n = 0 THEN FindAll(t, i + 1)
             ELSE <<SubSeq(t, i, i + n - 1)>> \o FindAll(t, i + n)

parse_full_access_path(path) == FindAll(path, 1)

----------------------------------------------------------------------------
(* Names and paths of the modelled service *)

a_mode == <<"m", "o", "d", "e">>
a_gain == <<"g", "a", "i", "n">>
a_panel == <<"p", "a", "n", "e", "l">>
a_slider == <<"s", "l", "i", "d", "e", "r">>
a_knob == <<"k", "n", "o", "b">>
a_value == <<"v", "a", "l", "u", "e">>
a_status == <<"s", "t", "a", "t", "u", "s">>
a_power == <<"p", "o", "w", "e", "r">>
a_uptime == <<"u", "p", "t", "i", "m", "e">>
a_reset == <<"r", "e", "s", "e", "t">>
a_level == <<"l", "e", "v", "e", "l">>
a_hold == <<"h", "o", "l", "d">>
a_nope == <<"n", "o", "p", "e">>

p_slider == a_panel \o <<Dot>> \o a_slider
p_knob == a_panel \o <<Dot>> \o a_knob
p_slider_value == p_slider \o <<Dot>> \o a_value
p_knob_value == p_knob \o <<Dot>> \o a_value
p_panel_value == a_panel \o <<Dot>> \o a_value

\* class Mode(Enum): OFF = 10; ON = 20; AUTO = 30   (declaration order)
ModeMembers ==
    << [name |-> <<"O", "F", "F">>, value |-> 10],
       [name |-> <<"O", "N">>, value |-> 20],
       [name |-> <<"A", "U", "T", "O">>, value |-> 30] >>

\* list(cls): the members of an enumeration class in declaration order
EnumList(cls) == IF cls = "Mode" THEN ModeMembers ELSE <<>>

----------------------------------------------------------------------------
(* Native values of the live tree and wire values *)

NoVal == [kind |-> "none"]
IntVal(n) == [kind |-> "int", n |-> n]
StrVal(s) == [kind |-> "str", s |-> s]
EnumVal(cls, i) == [kind |-> "Enum", cls |-> cls, idx |-> i]
Qty(m, u) == [kind |-> "Quantity", m |-> m, u |-> u]
Slider(id, v) == [kind |-> "NumberSlider", id |-> id, value |-> v]
DataService(attrs) == [kind |-> "DataService", attrs |-> attrs]
\* a bound method of the service: its __name__ and its serialized parameters
Method(name, params) == [kind |-> "method", name |-> name, params |-> params]
\* a class-level property without setter; fget is what its getter returns
Property(v) == [kind |-> "property", fget |-> v]

\* outcome of a step that may raise and may run property getters
Ret(err, val, evald) == [err |-> err, val |-> val, evald |-> evald]

\* the outcome r, with the getters that ran before it added
After(r, evald) == Ret(r.err, r.val, r.evald \cup evald)

\* hasattr(obj, name), decided on the class: no getter runs
HasAttr(obj, name) ==
    \/ obj.kind = "DataService" /\ name \in DOMAIN obj.attrs
    \/ obj.kind = "NumberSlider" /\ name = a_value

\* getattr(obj, name): a property's getter runs and its result is returned
get_object_attr(obj, name) ==
    IF ~HasAttr(obj, name) THEN Ret("AttributeError", NoVal, {})
    ELSE IF obj.kind = "NumberSlider" THEN Ret("none", obj.value, {})
    ELSE IF obj.attrs[name].kind = "property"
    THEN Ret("none", obj.attrs[name].fget, {name})
    ELSE Ret("none", obj.attrs[name], {})

\* the loop of get_object_by_path_parts: getattr for each part in turn
RECURSIVE Walk(_, _)
Walk(acc, parts) ==
    IF parts = <<>> \/ acc.err # "none" THEN acc
    ELSE Walk(After(get_object_attr(acc.val, Head(parts)), acc.evald), Tail(parts))

\* pydase.utils.helpers.get_object_by_path_parts
get_object_by_path_parts(target, parts) == Walk(Ret("none", target, {}), parts)

\* pydase.utils.helpers.get_object_attr_from_path
get_object_attr_from_path(target, path) ==
    get_object_by_path_parts(target, parse_full_access_path(path))

\* setattr(obj, name, v) on the object itself
SetAttr(obj, name, v) ==
    IF obj.kind = "DataService"
    THEN [obj EXCEPT !.attrs = [@ EXCEPT ![name] = v]]
    ELSE [obj EXCEPT !.value = v]

\* the tree with the attribute at `parts` set to v
RECURSIVE SetAt(_, _, _)
SetAt(obj, parts, v) ==
    IF Len(parts) = 1 THEN SetAttr(obj, parts[1], v)
    ELSE SetAttr(obj, Head(parts),
                 SetAt(IF obj.kind = "DataService" THEN obj.attrs[Head(parts)]
                       ELSE obj.value,
                       Tail(parts), v))

----------------------------------------------------------------------------
(* Serialization (pydase dump / serialize) *)

\* dump(v) for a value; `ro` is the "readonly" flag of the entry
RECURSIVE Dump(_, _)
Dump(v, ro) ==
    CASE v.kind = "int" ->
           [type |-> "int", value |-> v.n, readonly |-> ro]
      [] v.kind = "Enum" ->
           [type |-> "Enum", value |-> EnumList(v.cls)[v.idx].name,
            enum |-> v.cls, readonly |-> ro]
      [] v.kind = "Quantity" ->
           [type |-> "Quantity", value |-> [magnitude |-> v.m, unit |-> v.u],
            readonly |-> ro]
      [] v.kind = "NumberSlider" ->
           [type |-> "NumberSlider", value |-> (a_value :> Dump(v.value, FALSE)),
            readonly |-> ro]
      [] v.kind = "DataService" ->
           [type |-> "DataService",
            value |-> [n \in DOMAIN v.attrs |->
                          IF v.attrs[n].kind = "property"
                          THEN Dump(v.attrs[n].fget, TRUE)
                          ELSE Dump(v.attrs[n], FALSE)],
            readonly |-> ro]
      [] v.kind = "method" ->
           [type |-> "method", value |-> "None", readonly |-> TRUE,
            signature |-> [parameters |-> v.params]]
      [] OTHER ->
           [type |-> "None", value |-> "None", readonly |-> ro]

dump(v) == Dump(v, FALSE)

\* pydase get_nested_dict_by_path: the entry of the serialized mapping at the path
RECURSIVE NestedByParts(_, _)
NestedByParts(container, parts) ==
    IF Head(parts) \notin DOMAIN container THEN Ret("KeyError", NoVal, {})
    ELSE IF Len(parts) = 1 THEN Ret("none", container[Head(parts)], {})
    ELSE IF container[Head(parts)].type \in {"DataService", "NumberSlider"}
    THEN NestedByParts(container[Head(parts)].value, Tail(parts))
    ELSE Ret("KeyError", NoVal, {})

get_nested_dict_by_path(serialized, path) ==
    IF parse_full_access_path(path) = <<>> THEN Ret("KeyError", NoVal, {})
    ELSE NestedByParts(serialized, parse_full_access_path(path))

\* the serialized mapping with the entry at `parts` replaced
RECURSIVE SetNested(_, _, _)
SetNested(container, parts, entry) ==
    IF Len(parts) = 1 THEN [container EXCEPT ![parts[1]] = entry]
    ELSE [container EXCEPT ![Head(parts)] =
              [@ EXCEPT !.value = SetNested(@, Tail(parts), entry)]]

\* pydase loads: the native value a serialized value stands for
NameIndex(cls, name) ==
    CHOOSE i \in 1..Len(EnumList(cls)) : EnumList(cls)[i].name = name

loads(ser) ==
    CASE ser.type = "int" -> IntVal(ser.value)
      [] ser.type = "Quantity" -> Qty(ser.value.magnitude, ser.value.unit)
      [] ser.type = "Enum" -> EnumVal(ser.enum, NameIndex(ser.enum, ser.value))
      [] OTHER -> NoVal

----------------------------------------------------------------------------
(* IonizerServer.notify_ionizer *)

\* NotifyValue with the enum member's name published instead of its value
NotifyValueName(value) ==
    IF value.kind = "Enum" THEN StrVal(EnumList(value.cls)[value.idx].name)
    ELSE IF value.kind = "Quantity" THEN IntVal(value.m)
    ELSE value

\* lines 59-62: an enum member becomes its value, a quantity its magnitude
NotifyValue(value) ==
    IF value.kind = "Enum" THEN IntVal(EnumList(value.cls)[value.idx].value)
    ELSE IF value.kind = "Quantity" THEN IntVal(value.m)
    ELSE value

\* NotifyName that drops the last segment whatever the parent object is
NotifyNameAnyParent(full_access_path, parent_path, parent_object) ==
    StrVal(parent_path)

\* lines 66-73: the name published for a change of a `value` attribute whose
\* parent object was resolved; the second assignment overrides the first
NotifyName(full_access_path, parent_path, parent_object) ==
    LET name1 == IF parent_object.kind = "NumberSlider"
                 THEN StrVal(parent_path)
                 ELSE StrVal(full_access_path)
    IN  IF parent_object.kind = "NumberSlider" THEN parent_object ELSE name1

\* lines 63-80 for attr_name = "value"
NotifyValueAttr(full_access_path, parent_path, parent, value) ==
    IF parent.err # "none" THEN Ret(parent.err, NoVal, parent.evald)
    ELSE Ret("none",
             [name |-> NotifyName(full_access_path, parent_path, parent.val),
              value |-> value],
             parent.evald)

\* the message handed to server._handler.notify for a change event; `svc` is
\* the tree at the time of the callback (the change is already applied)
notify_ionizer(svc, full_access_path, value) ==
    IF Last(Split(full_access_path)) = a_value
    THEN NotifyValueAttr(full_access_path,
                         Join(ButLast(Split(full_access_path))),
                         get_object_attr_from_path(
                             svc, Join(ButLast(Split(full_access_path)))),
                         NotifyValue(value))
    ELSE Ret("none",
             [name |-> StrVal(full_access_path), value |-> NotifyValue(value)],
             {})

----------------------------------------------------------------------------
(* pydase StateManager and DataServiceObserver, as far as set_param drives them *)

\* outcome of an operation on the service
Out(err, svc, cch, evald, published) ==
    [err |-> err, service |-> svc, cache |-> cch, evald |-> evald,
     published |-> published]

\* the cache refreshed and the outcome of the callback recorded
Notified(svc, cch, parts, value, evald, oldEntry, msg) ==
    IF oldEntry.err # "none" THEN Out("none", svc, cch, evald, <<>>)
    ELSE Out(msg.err, svc,
             SetNested(cch, parts, Dump(value, oldEntry.val.readonly)),
             evald \cup msg.evald,
             IF msg.err = "none" THEN <<msg.val>> ELSE <<>>)

\* DataServiceObserver.on_change after an attribute was set: the cache entry
\* is refreshed and the notification callback runs
on_change(svc, cch, parts, path, value, evald) ==
    Notified(svc, cch, parts, value, evald, NestedByParts(cch, parts),
             notify_ionizer(svc, path, value))

\* the value __update_attribute_by_path assigns: an enum is looked up by name
\* in the class of the current member, anything else is loaded
NewValue(ser, isEnum, enum_attr) ==
    IF /\ isEnum
       /\ enum_attr.err = "none"
       /\ enum_attr.val.kind = "Enum"
       /\ ser.type \in {"Enum", "ColouredEnum"}
       /\ \E i \in 1..Len(EnumList(enum_attr.val.cls)) :
             EnumList(enum_attr.val.cls)[i].name = ser.value
    THEN EnumVal(enum_attr.val.cls, NameIndex(enum_attr.val.cls, ser.value))
    ELSE loads(ser)

\* setattr on the target, then the observer
UpdateWith(svc, cch, path, parts, value, evald) ==
    on_change(SetAt(svc, parts, value), cch, parts, path, value, evald)

UpdateResolved(svc, cch, path, ser, parts, target, isEnum) ==
    IF target.err # "none" THEN Out(target.err, svc, cch, target.evald, <<>>)
    ELSE IF ~HasAttr(target.val, Last(parts))
    THEN Out("AttributeError", svc, cch, target.evald, <<>>)
    ELSE UpdateWith(svc, cch, path, parts,
                    NewValue(ser, isEnum, get_object_attr(target.val, Last(parts))),
                    IF isEnum
                    THEN target.evald
                         \cup get_object_attr(target.val, Last(parts)).evald
                    ELSE target.evald)

\* StateManager.__update_attribute_by_path
update_attribute_by_path(svc, cch, path, ser) ==
    UpdateResolved(svc, cch, path, ser, parse_full_access_path(path),
                   get_object_by_path_parts(
                       svc, ButLast(parse_full_access_path(path))),
                   get_nested_dict_by_path(cch, path).val.type
                       \in {"Enum", "ColouredEnum"})

\* StateManager.__attr_value_has_changed
attr_value_has_changed(new, cur) ==
    ~(new.type = cur.type /\ new.value = cur.value)

\* the cached entry, or the entry assumed for a path the cache does not hold
CachedOrNone(found) ==
    IF found.err = "none" THEN found.val
    ELSE [type |-> "None", value |-> "None", readonly |-> FALSE]

SetIfChanged(svc, cch, path, ser, current_value_dict) ==
    IF current_value_dict.readonly THEN Out("none", svc, cch, {}, <<>>)
    ELSE IF attr_value_has_changed(ser, current_value_dict)
    THEN update_attribute_by_path(svc, cch, path, ser)
    ELSE Out("none", svc, cch, {}, <<>>)

\* StateManager.set_service_attribute_value_by_path
set_service_attribute_value_by_path(svc, cch, path, ser) ==
    SetIfChanged(svc, cch, path, ser,
                 CachedOrNone(get_nested_dict_by_path(cch, path)))

----------------------------------------------------------------------------
(* RPCInterface *)

\* lines 157-159: f"{param.__name__}({', '.join(args)})", args being the names
\* of the parameters of the signature
SignatureText(param) ==
    StrVal(param.name \o <<"(">>
           \o JoinComma([i \in 1..Len(param.params) |-> param.params[i].k])
           \o <<")">>)

\* ReadCoerce that calls the method it resolved and returns what it returns
ReadCoerceCallsMethod(r) ==
    IF r.err # "none" THEN r
    ELSE IF r.val.kind = "NumberSlider"
    THEN IF r.val.value.kind = "Quantity"
         THEN Ret("none", IntVal(r.val.value.m), r.evald)
         ELSE Ret("none", r.val.value, r.evald)
    ELSE IF r.val.kind = "DataService"
    THEN Ret("none", [kind |-> "serialized", ser |-> dump(r.val)], r.evald)
    ELSE IF r.val.kind = "method" THEN Ret("none", NoVal, r.evald \cup {r.val.name})
    ELSE IF r.val.kind = "Enum"
    THEN Ret("none", IntVal(EnumList(r.val.cls)[r.val.idx].value), r.evald)
    ELSE IF r.val.kind = "Quantity"
    THEN Ret("none", IntVal(r.val.m), r.evald)
    ELSE r

\* ReadCoerce without the unwrapping of a widget's inner quantity
ReadCoerceInnerAsIs(r) ==
    IF r.err # "none" THEN r
    ELSE IF r.val.kind = "NumberSlider" THEN Ret("none", r.val.value, r.evald)
    ELSE IF r.val.kind = "DataService"
    THEN Ret("none", [kind |-> "serialized", ser |-> dump(r.val)], r.evald)
    ELSE IF r.val.kind = "method" THEN Ret("none", SignatureText(r.val), r.evald)
    ELSE IF r.val.kind = "Enum"
    THEN Ret("none", IntVal(EnumList(r.val.cls)[r.val.idx].value), r.evald)
    ELSE IF r.val.kind = "Quantity"
    THEN Ret("none", IntVal(r.val.m), r.evald)
    ELSE r

\* get_param, lines 149-164: the wire value of the resolved object
ReadCoerce(r) ==
    IF r.err # "none" THEN r
    ELSE IF r.val.kind = "NumberSlider"
    THEN IF r.val.value.kind = "Quantity"
         THEN Ret("none", IntVal(r.val.value.m), r.evald)
         ELSE Ret("none", r.val.value, r.evald)
    ELSE IF r.val.kind = "DataService"
    THEN Ret("none", [kind |-> "serialized", ser |-> dump(r.val)], r.evald)
    ELSE IF r.val.kind = "method" THEN Ret("none", SignatureText(r.val), r.evald)
    ELSE IF r.val.kind = "Enum"
    THEN Ret("none", IntVal(EnumList(r.val.cls)[r.val.idx].value), r.evald)
    ELSE IF r.val.kind = "Quantity"
    THEN Ret("none", IntVal(r.val.m), r.evald)
    ELSE r

\* RPCInterface.get_param
get_param(svc, full_access_path) ==
    ReadCoerce(get_object_attr_from_path(svc, full_access_path))

\* PyIndex with positions counted from one
PyIndexFromOne(seq, n) ==
    IF 1 <= n /\ n <= Len(seq) THEN Ret("none", n, {})
    ELSE IF n < 0 /\ 0 - n <= Len(seq) THEN Ret("none", Len(seq) + n + 1, {})
    ELSE Ret("IndexError", 0, {})

\* seq[n] with Python's index rule: 0-based, negative n counts from the end
PyIndex(seq, n) ==
    IF 0 <= n /\ n < Len(seq) THEN Ret("none", n + 1, {})
    ELSE IF n < 0 /\ 0 - n <= Len(seq) THEN Ret("none", Len(seq) + n + 1, {})
    ELSE Ret("IndexError", 0, {})

\* value * unit
Mul(value, unit) ==
    IF value.kind = "int" THEN Ret("none", Qty(value.n, unit), {})
    ELSE Ret("TypeError", NoVal, {})

\* line 178: list(current_value.__class__)[value]
EnumMember(current_value, n, at) ==
    IF at.err # "none" THEN Ret(at.err, NoVal, current_value.evald)
    ELSE Ret("none", EnumVal(current_value.val.cls, at.val), current_value.evald)

\* lines 177-178 with the current value read from the parent
EnumOf(current_value, n) ==
    IF current_value.err # "none" THEN current_value
    ELSE IF current_value.val.kind # "Enum"
    THEN Ret("TypeError", NoVal, current_value.evald)
    ELSE EnumMember(current_value, n,
                    PyIndex(EnumList(current_value.val.cls), n))

\* set_param, lines 173-178: an integer aimed at an enum-tagged entry becomes
\* the member at that position of the current value's class
EnumCoerce(parent_object, attr, current_value_dict, value) ==
    IF current_value_dict.type \in {"Enum", "ColouredEnum"} /\ value.kind = "int"
    THEN EnumOf(get_object_attr(parent_object, attr), value.n)
    ELSE Ret("none", value, {})

\* TimesUnitOf with the multiplication by the unit left out
TimesUnitOmitted(current_value, full_access_path, value) ==
    IF current_value.err # "none" THEN current_value
    ELSE Ret("none", <<full_access_path, value>>, current_value.evald)

\* lines 180-181: value * current_value.u
TimesUnitOf(current_value, full_access_path, value) ==
    IF current_value.err # "none" THEN current_value
    ELSE IF current_value.val.kind # "Quantity"
    THEN Ret("AttributeError", NoVal, current_value.evald)
    ELSE Ret(Mul(value, current_value.val.u).err,
             <<full_access_path, Mul(value, current_value.val.u).val>>,
             current_value.evald)

\* lines 183-187: the path gains ".value"; a quantity inside the widget takes
\* the unit the cached entry names
WidgetTarget(inner, path1, value) ==
    IF inner.type = "Quantity"
    THEN Ret(Mul(value, inner.value.unit).err,
             <<path1, Mul(value, inner.value.unit).val>>, {})
    ELSE Ret("none", <<path1, value>>, {})

\* UnitCoerce without the rewrite of a widget path to its value field
UnitCoerceNoRewrite(parent_object, attr, current_value_dict, full_access_path, value) ==
    IF current_value_dict.type = "Quantity"
    THEN TimesUnitOf(get_object_attr(parent_object, attr), full_access_path, value)
    ELSE IF current_value_dict.type = "NumberSlider"
    THEN WidgetTarget(current_value_dict.value[a_value], full_access_path, value)
    ELSE Ret("none", <<full_access_path, value>>, {})

\* set_param, lines 179-187; val is <<path, value>>
UnitCoerce(parent_object, attr, current_value_dict, full_access_path, value) ==
    IF current_value_dict.type = "Quantity"
    THEN TimesUnitOf(get_object_attr(parent_object, attr), full_access_path, value)
    ELSE IF current_value_dict.type = "NumberSlider"
    THEN WidgetTarget(current_value_dict.value[a_value],
                      full_access_path \o <<Dot>> \o a_value, value)
    ELSE Ret("none", <<full_access_path, value>>, {})

\* the getters that ran before the apply step, added to its outcome
WithEvald(out, evald) == [out EXCEPT !.evald = @ \cup evald]

\* lines 189-191
SetParamApply(svc, cch, evald, u) ==
    IF u.err # "none" THEN Out(u.err, svc, cch, evald \cup u.evald, <<>>)
    ELSE WithEvald(set_service_attribute_value_by_path(svc, cch, u.val[1],
                                                       dump(u.val[2])),
                   evald \cup u.evald)

\* SetParamUnit that stores the wire value before it coerces it
SetParamUnitStoresFirst(svc, cch, full_access_path, path_parts, parent_object, current_value_dict, e) ==
    IF e.err # "none"
    THEN [set_service_attribute_value_by_path(svc, cch, full_access_path,
                                              dump(IntVal(0)))
            EXCEPT !.err = e.err]
    ELSE SetParamApply(svc, cch, parent_object.evald \cup e.evald,
                       UnitCoerce(parent_object.val, Last(path_parts),
                                  current_value_dict, full_access_path, e.val))

\* lines 179-191
SetParamUnit(svc, cch, full_access_path, path_parts, parent_object, current_value_dict, e) ==
    IF e.err # "none"
    THEN Out(e.err, svc, cch, parent_object.evald \cup e.evald, <<>>)
    ELSE SetParamApply(svc, cch, parent_object.evald \cup e.evald,
                       UnitCoerce(parent_object.val, Last(path_parts),
                                  current_value_dict, full_access_path, e.val))

\* lines 168-191
SetParamResolved(svc, cch, full_access_path, value, path_parts, parent_object, found) ==
    IF parent_object.err # "none"
    THEN Out(parent_object.err, svc, cch, parent_object.evald, <<>>)
    ELSE IF found.err # "none"
    THEN Out(found.err, svc, cch, parent_object.evald, <<>>)
    ELSE SetParamUnit(svc, cch, full_access_path, path_parts, parent_object,
                      found.val,
                      EnumCoerce(parent_object.val, Last(path_parts), found.val,
                                 value))

\* RPCInterface.set_param
set_param(svc, cch, full_access_path, value) ==
    SetParamResolved(svc, cch, full_access_path, value,
                     parse_full_access_path(full_access_path),
                     get_object_by_path_parts(
                         svc, ButLast(parse_full_access_path(full_access_path))),
                     get_nested_dict_by_path(cch, full_access_path))

----------------------------------------------------------------------------
(* flatten_obj and flatten_obj_value *)

\* A serialized object is [type, value]. The value of a "list" is a sequence
\* of serialized objects; every other container holds a mapping, modelled in
\* insertion order as a sequence of entries [k |-> key, v |-> object].
Leaf(n) == [type |-> "int", value |-> n]
ListOf(items) == [type |-> "list", value |-> items]
DictOf(entries) == [type |-> "dict", value |-> entries]
ServiceOf(entries) == [type |-> "DataService", value |-> entries]
Entry(k, v) == [k |-> k, v |-> v]

DictKeys(map) == {map[i].k : i \in 1..Len(map)}

\* map[key] = val on an insertion-ordered mapping
DictSet(map, key, val) ==
    IF key \in DictKeys(map)
    THEN [i \in 1..Len(map) |-> IF map[i].k = key THEN Entry(key, val) ELSE map[i]]
    ELSE Append(map, Entry(key, val))

\* the types whose value flatten_obj flattens (lines 78-86)
FlattenedTypes ==
    {"DataService", "Image", "NumberSlider", "DeviceConnection", "Task", "list",
     "dict"}

\* outcome of flattening: the mapping built, and how many of its assignments
\* replaced an entry stored earlier in the same call tree
FlatRet(err, val, over) == [err |-> err, val |-> val, over |-> over]

\* flattened_obj_value[key] = <result of flatten_obj>
Store(acc, key, r) ==
    IF r.err # "none" THEN FlatRet(r.err, acc.val, acc.over)
    ELSE FlatRet("none", DictSet(acc.val, key, r.val),
                 acc.over + r.over + (IF key \in DictKeys(acc.val) THEN 1 ELSE 0))

\* obj_copy["value"] = <result of flatten_obj_value>
WithValue(obj, r) ==
    IF r.err # "none" THEN r
    ELSE FlatRet("none", [obj EXCEPT !.value = r.val], r.over)

\* f"{key}[{index}]"
IndexKey(key, index) == key \o <<"[">> \o NatText(index) \o <<"]">>

\* QuotedKey without the quotes around the key: f'{key}[{k}]'
QuotedKeyBare(key, k) == key \o <<"[">> \o k \o <<"]">>

\* f'{key}["{k}"]'
QuotedKey(key, k) == key \o <<"[", "\"">> \o k \o <<"\"", "]">>

RECURSIVE flatten_obj(_), flatten_obj_value(_), FlattenEntries(_, _, _),
          FlattenItems(_, _, _, _), FlattenKeys(_, _, _, _)

\* lines 108-109: the items of a list stored under key[index]
FlattenItems(key, items, i, acc) ==
    IF i > Len(items) \/ acc.err # "none" THEN acc
    ELSE FlattenItems(key, items, i + 1,
                      Store(acc, IndexKey(key, i - 1), flatten_obj(items[i])))

\* lines 111-112: the entries of a dict stored under key["k"]
FlattenKeys(key, entries, i, acc) ==
    IF i > Len(entries) \/ acc.err # "none" THEN acc
    ELSE FlattenKeys(key, entries, i + 1,
                     Store(acc, QuotedKey(key, entries[i].k),
                           flatten_obj(entries[i].v)))

\* lines 106-114: the loop over obj_value.items()
FlattenEntries(entries, i, acc) ==
    IF i > Len(entries) \/ acc.err # "none" THEN acc
    ELSE FlattenEntries(
             entries, i + 1,
             IF entries[i].v.type = "list"
             THEN FlattenItems(entries[i].k, entries[i].v.value, 1, acc)
             ELSE IF entries[i].v.type = "dict"
             THEN FlattenKeys(entries[i].k, entries[i].v.value, 1, acc)
             ELSE Store(acc, entries[i].k, flatten_obj(entries[i].v)))

\* flatten_obj_value; a list has no items() to iterate
flatten_obj_value(obj_value) ==
    FlattenEntries(obj_value, 1, FlatRet("none", <<>>, 0))

\* flatten_obj; the value of a "list" object is a list, and flatten_obj_value
\* fails on it with AttributeError
flatten_obj(obj) ==
    IF obj.type \notin FlattenedTypes THEN FlatRet("none", obj, 0)
    ELSE IF obj.type = "list" THEN FlatRet("AttributeError", obj, 0)
    ELSE WithValue(obj, flatten_obj_value(obj.value))

\* the serialization of a method: no value, and the signature of its
\* parameters, an entry [annotation |-> text] for each name in declared order
MethodOf(params) ==
    [type |-> "method", value |-> <<>>, signature |-> [parameters |-> params]]

\* str(annotation) of a parameter declared `int`, and of one declared `bool | None`
ClassInt == <<"<", "c", "l", "a", "s", "s", " ", "'", "i", "n", "t", "'", ">">>
BoolOrNone == <<"b", "o", "o", "l", " ", "|", " ", "N", "o", "n", "e">>

\* the parameters of the method `reset(level: int, hold: bool | None)`
ResetParams ==
    <<Entry(a_level, [annotation |-> ClassInt]),
      Entry(a_hold, [annotation |-> BoolOrNone])>>

\* position of the first single quote at or after t[i], 0 when there is none
RECURSIVE QuotePos(_, _)
QuotePos(t, i) ==
    IF i > Len(t) THEN 0 ELSE IF t[i] = "'" THEN i ELSE QuotePos(t, i + 1)

\* match.group(1) for a match between the quotes at a and b, None without one
GroupBetween(t, a, b) ==
    IF a = 0 \/ b = 0 THEN NoVal ELSE StrVal(SubSeq(t, a + 1, b - 1))

\* the second quote of the match that starts at the quote at a
ClosingQuote(t, a) == IF a = 0 THEN 0 ELSE QuotePos(t, a + 1)

\* extract_type_name: re.search(r"'([^']*)'", type_annotation)
extract_type_name(type_annotation) ==
    GroupBetween(type_annotation, QuotePos(type_annotation, 1),
                 ClosingQuote(type_annotation, QuotePos(type_annotation, 1)))

\* add_parameters_keyword_to_dict: serialized_method["parameters"] is set
add_parameters_keyword_to_dict(serialized_method) ==
    [parameters |->
        [i \in 1..Len(serialized_method.signature.parameters) |->
            Entry(serialized_method.signature.parameters[i].k,
                  extract_type_name(
                      serialized_method.signature.parameters[i].v.annotation))]]
    @@ serialized_method

\* the object with every method serialized inside it given its "parameters"
RECURSIVE UpdateMethods(_)
UpdateMethods(obj) ==
    IF obj.type = "method" THEN add_parameters_keyword_to_dict(obj)
    ELSE IF obj.type = "list"
    THEN [obj EXCEPT !.value =
             [i \in 1..Len(obj.value) |-> UpdateMethods(obj.value[i])]]
    ELSE IF obj.type \in FlattenedTypes
    THEN [obj EXCEPT !.value =
             [i \in 1..Len(obj.value) |->
                 Entry(obj.value[i].k, UpdateMethods(obj.value[i].v))]]
    ELSE obj

\* update_method_serialization: the mapping it was handed, updated in place
update_method_serialization(serialized_object) ==
    [i \in 1..Len(serialized_object) |->
        Entry(serialized_object[i].k, UpdateMethods(serialized_object[i].v))]

\* get_props without the deep copy: the methods of the service's own
\* serialization gain the "parameters" entry
get_props_no_copy(serialized) ==
    [out |-> flatten_obj_value(update_method_serialization(serialized)),
     serialized |-> update_method_serialization(serialized)]

\* get_props that leaves the flattened mapping in place of the serialization
get_props_in_place(serialized) ==
    [out |-> flatten_obj_value(update_method_serialization(serialized)),
     serialized |->
         IF flatten_obj_value(update_method_serialization(serialized)).err = "none"
         THEN flatten_obj_value(update_method_serialization(serialized)).val
         ELSE serialized]

\* RPCInterface.get_props on the service whose serialize()["value"] is
\* `serialized`: the flattened mapping returned, and the service's own
\* serialization after the call (the update went to the deep copy of line 138)
get_props(serialized) ==
    [out |-> flatten_obj_value(update_method_serialization(serialized)),
     serialized |-> serialized]

\* int(text) for a text of decimal digits
RECURSIVE ParseNat(_)
ParseNat(t) ==
    IF t = <<>> THEN 0
    ELSE 10 * ParseNat(ButLast(t))
         + (CHOOSE d \in 0..9 : Digits[d + 1] = Last(t))

\* the entries of `entries` stored under key k
EntriesAt(entries, k) == SelectSeq(entries, LAMBDA e : e.k = k)

\* target_obj[key] / getattr(target_obj, part) of get_object_by_path_parts,
\* read on the serialization of target_obj: ["k"] is a key of a dict, [N] a
\* position of a list, a word an attribute of an object
StepInto(obj, part) ==
    IF Len(part) >= 4 /\ part[1] = "[" /\ part[2] = "\""
    THEN IF obj.type = "dict"
            /\ EntriesAt(obj.value, SubSeq(part, 3, Len(part) - 2)) # <<>>
         THEN Ret("none",
                  EntriesAt(obj.value, SubSeq(part, 3, Len(part) - 2))[1].v, {})
         ELSE Ret("KeyError", NoVal, {})
    ELSE IF part[1] = "["
    THEN IF obj.type = "list"
            /\ ParseNat(SubSeq(part, 2, Len(part) - 1)) < Len(obj.value)
         THEN Ret("none",
                  obj.value[ParseNat(SubSeq(part, 2, Len(part) - 1)) + 1], {})
         ELSE Ret("IndexError", NoVal, {})
    ELSE IF obj.type \in FlattenedTypes \ {"list", "dict"}
            /\ EntriesAt(obj.value, part) # <<>>
         THEN Ret("none", EntriesAt(obj.value, part)[1].v, {})
         ELSE Ret("AttributeError", NoVal, {})

\* get_object_by_path_parts on the service a mapping serializes
RECURSIVE StepAll(_, _)
StepAll(acc, parts) ==
    IF parts = <<>> \/ acc.err # "none" THEN acc
    ELSE StepAll(StepInto(acc.val, Head(parts)), Tail(parts))

\* the node of the service serialized as `serialized` that get_param and
\* set_param reach for the path text
NodeAt(serialized, path) ==
    StepAll(Ret("none", ServiceOf(serialized), {}), parse_full_access_path(path))

----------------------------------------------------------------------------
(* The service and the operations on it *)

\* the attributes of the service classes in the order of their definition
AttrOrder ==
    <<a_mode, a_gain, a_panel, a_slider, a_knob, a_value, a_status, a_power,
      a_uptime, a_reset>>

\* mapping.items(): the entries of a serialized mapping in insertion order
RECURSIVE Ordered(_)
Items(mapping) ==
    [i \in 1..Len(SelectSeq(AttrOrder, LAMBDA n : n \in DOMAIN mapping)) |->
        Entry(SelectSeq(AttrOrder, LAMBDA n : n \in DOMAIN mapping)[i],
              Ordered(mapping[SelectSeq(AttrOrder,
                                        LAMBDA n : n \in DOMAIN mapping)[i]]))]

\* a serialized object with the mappings inside it in insertion order
Ordered(ser) ==
    IF ser.type \in {"DataService", "NumberSlider"}
    THEN [ser EXCEPT !.value = Items(ser.value)]
    ELSE ser

\* self._service.serialize()
serialize(svc) == Ordered(dump(svc))

\* the service after construction
InitService ==
    DataService(
        (a_mode :> EnumVal("Mode", 1))
     @@ (a_gain :> Qty(2, "dB"))
     @@ (a_panel :> DataService(
              (a_slider :> Slider(1, Qty(1, "V")))
           @@ (a_knob :> Slider(2, IntVal(0)))
           @@ (a_value :> IntVal(5))))
     @@ (a_status :> Property(EnumVal("Mode", 2)))
     @@ (a_power :> Property(Qty(3, "W")))
     @@ (a_uptime :> Property(IntVal(7)))
     @@ (a_reset :> Method(a_reset, ResetParams)))

\* paths of plain attributes the remote side reads and writes
ScalarPaths == {a_mode, a_gain, a_status, a_power, a_uptime, a_nope}

\* paths of the composite widgets and of their inner fields
WidgetPaths == {p_slider, p_knob, p_slider_value, p_knob_value}

\* computed attributes (class-level properties)
ComputedPaths == {a_status, a_power, a_uptime}

\* attributes the owning service assigns by itself
StoredPaths == {a_mode, a_gain, p_slider_value, p_knob_value, p_panel_value}

Record(op, path, value, err, result, evald, published) ==
    [op |-> op, path |-> path, value |-> value, err |-> err, result |-> result,
     evald |-> evald, published |-> published, pre |-> service,
     preCache |-> cache]

Init ==
    /\ service = InitService
    /\ cache = dump(InitService).value
    /\ last = [op |-> "init", path |-> <<>>, value |-> NoVal, err |-> "none",
               result |-> NoVal, evald |-> {}, published |-> <<>>,
               pre |-> InitService, preCache |-> dump(InitService).value]
    /\ tree = <<>>
    /\ flat = [done |-> FALSE, calls |-> 0,
               out |-> [err |-> "none", val |-> <<>>, over |-> 0],
               prev |-> [err |-> "none", val |-> <<>>, over |-> 0],
               before |-> <<>>]
    /\ route = [segs |-> <<>>, text |-> <<>>, parts |-> <<>>, done |-> FALSE]
    /\ bus = [observers |-> <<"ionizer">>, pc |-> "idle", at |-> 0,
              delivered |-> <<>>, handed |-> <<>>, setattr |-> "none",
              events |-> 0, path |-> <<>>, value |-> NoVal]
    /\ conf = [calls |-> 0,
               class |-> [name |-> "", CONFIG_SOURCES |-> [kind |-> "None", folder |-> "", file |-> ""]],
               folder |-> "None", file |-> "",
               out |-> [raised |-> "none", message |-> <<>>,
                        config |-> [made |-> FALSE, class |-> "",
                                    config_sources |-> [kind |-> "None", folder |-> "", file |-> ""],
                                    loaded_from |-> [kind |-> "None", folder |-> "", file |-> ""]],
                        logged |-> <<>>],
               configs |-> 0]
    /\ db = [sessions |-> 0, kind |-> "none", pc |-> "none",
             session |-> [host |-> "", org |-> "", bucket |-> "", token |-> "",
                          verify_ssl |-> TRUE],
             client |-> [state |-> "none", database |-> ""],
             write_api |-> "none",
             from |-> [used |-> FALSE, path |-> <<>>, env |-> "unset"],
             store |-> [b \in {"test-bucket", "other-bucket"} |-> {}],
             buckets |-> {},
             ops |-> 0,
             op |-> [name |-> "none", bucket |-> "", record |-> "",
                     status |-> 0, raised |-> "none", returned |-> "none",
                     logged |-> "none"],
             exc |-> "none", propagated |-> "none"]
    /\ pending = <<>>

\* the step an operation takes: the new tree and cache, and the record of it
Step(op, path, value, result, out) ==
    /\ service' = out.service
    /\ cache' = out.cache
    /\ last' = Record(op, path, value, out.err, result, out.evald, out.published)
    /\ UNCHANGED <<tree, flat, route, bus, conf, db, pending>>

\* a read: nothing changes but the record
Read(path, r) ==
    /\ last' = Record("get_param", path, NoVal, r.err, r.val, r.evald, <<>>)
    /\ UNCHANGED <<service, cache, tree, flat, route, bus, conf, db, pending>>

\* a get_props request: the flattened mapping returned, the serialization
\* the service handed out as the call left it, and the getters serialize() ran
Props(r) ==
    /\ last' = Record("get_props", <<>>, NoVal, r.out.err,
                      [kind |-> "props", entries |-> r.out.val,
                       serialized |-> r.serialized],
                      ComputedPaths, <<>>)
    /\ UNCHANGED <<service, cache, tree, flat, route, bus, conf, db, pending>>

GetProps == Props(get_props(serialize(service).value))

GetParam(paths) ==
    \E path \in paths : Read(path, get_param(service, path))

SetParam(paths) ==
    \E path \in paths, n \in WireInts :
        Step("set_param", path, IntVal(n), NoVal,
             set_param(service, cache, path, IntVal(n)))

\* a value of the kind the attribute holds, chosen by n
SameKind(cur, n) ==
    CASE cur.kind = "Enum" -> EnumVal(cur.cls, (n % Len(EnumList(cur.cls))) + 1)
      [] cur.kind = "Quantity" -> Qty(n, cur.u)
      [] OTHER -> IntVal(n)

AssignAttr(path, parts, cur, new) ==
    /\ new # cur
    /\ Step("service_change", path, new, NoVal,
            on_change(SetAt(service, parts, new), cache, parts, path, new, {}))

\* the owning service assigns one of its attributes; the observer refreshes
\* the cache and runs the notification callback
ServiceChange(paths) ==
    \E path \in paths \cap StoredPaths, n \in WireInts :
        AssignAttr(path, parse_full_access_path(path),
               get_object_attr_from_path(service, path).val,
               SameKind(get_object_attr_from_path(service, path).val, n))

\* requests and changes on the plain attributes
Next ==
    \/ GetProps
    \/ GetParam(ScalarPaths \cup {a_reset})
    \/ SetParam(ScalarPaths)
    \/ ServiceChange(ScalarPaths)

Spec == Init /\ [][Next]_vars

\* requests and changes on the composite widgets
NextWidget ==
    \/ GetParam(WidgetPaths)
    \/ SetParam(WidgetPaths)
    \/ ServiceChange(WidgetPaths)

SpecWidget == Init /\ [][NextWidget]_vars

\* the paths written while the service assigns attributes by itself
LivePaths == {a_mode, a_gain, a_nope, p_slider}

\* the wire integers written to them: a valid ordinal and one out of range
LiveInts == {1, MaxWire}

\* what the service assigns by itself, from a thread of its own: an int
\* where a quantity was, a quantity of another unit, another int
Assignments ==
    {[path |-> a_gain, value |-> IntVal(1)],
     [path |-> p_slider_value, value |-> IntVal(1)],
     [path |-> p_panel_value, value |-> IntVal(1)]}
    \cup {[path |-> p_slider_value, value |-> Qty(1, "mV")]}

\* DataService.__setattr__, first half: the attribute is set on the object;
\* the observer has not run yet, so the cache still holds the old entry
Assign ==
    \E e \in Assignments :
        /\ pending = <<>>
        /\ e.value # get_object_attr_from_path(service, e.path).val
        /\ service' = SetAt(service, parse_full_access_path(e.path), e.value)
        /\ pending' = <<e>>
        /\ last' = Record("assign", e.path, e.value, "none", NoVal, {}, <<>>)
        /\ UNCHANGED <<cache, tree, flat, route, bus, conf, db>>

\* the outcome of the observer recorded
Observed(e, out) ==
    /\ service' = out.service
    /\ cache' = out.cache
    /\ last' = Record("service_change", e.path, e.value, out.err, NoVal,
                      out.evald, out.published)
    /\ pending' = <<>>
    /\ UNCHANGED <<tree, flat, route, bus, conf, db>>

\* DataService.__setattr__, second half: the observer's on_change refreshes
\* the cache and runs the notification callback
Observe ==
    /\ pending # <<>>
    /\ Observed(pending[1],
                on_change(service, cache, parse_full_access_path(pending[1].path),
                          pending[1].path, pending[1].value, {}))

\* set_param(path, None)
SetParamNone(paths) ==
    \E path \in paths :
        Step("set_param", path, NoVal, NoVal,
             set_param(service, cache, path, NoVal))

\* set_param(path, n) while an assignment may be pending
SetParamLive ==
    \E path \in LivePaths, n \in LiveInts :
        Step("set_param", path, IntVal(n), NoVal,
             set_param(service, cache, path, IntVal(n)))

\* requests of the remote side interleaved with assignments of the service
NextLive ==
    \/ Assign
    \/ Observe
    \/ SetParamLive
    \/ SetParamNone({a_gain})

SpecLive == Init /\ [][NextLive]_vars

----------------------------------------------------------------------------
(* Serialized trees handed to the flattener *)

\* at most MaxAttrs attributes at the top of a tree
MaxAttrs == 2

\* at most MaxCalls get_props requests in a run
MaxCalls == 2

k_a == <<"a">>
k_a0 == <<"a", "[", "0", "]">>
k_x == <<"x">>
k_q == <<"q", "\"">>
a_items == <<"i", "t", "e", "m", "s">>

\* the name of the i-th attribute of the service
AttrName(i) == <<"a", "t", "t", "r">> \o NatText(i)

\* what a list or a mapping holds at the innermost level: an int or a list
InnerVal(c) == IF c = 1 THEN Leaf(1) ELSE ListOf(<<Leaf(2)>>)

\* the keys of a mapping, in insertion order, over `a`, `a[0]` and `q"`
KeySeqs == {<<k_a>>, <<k_a0>>, <<k_q>>, <<k_a, k_a0>>, <<k_a0, k_a>>}

\* the mapping holding InnerVal(cs[i]) under ks[i]
InnerDict(ks, cs) == DictOf([i \in 1..Len(ks) |-> Entry(ks[i], InnerVal(cs[i]))])

PlainShapes == {"int", "list", "list_in_list", "service", "slider", "method"}
DictShapes == {"dict", "dict_in_dict", "dict_in_list"}

\* the attribute values a tree is built from, each named by its shape
Shapes ==
    {[shape |-> s, ks |-> <<>>, cs |-> <<>>] : s \in PlainShapes}
    \cup {[shape |-> s, ks |-> ks, cs |-> cs] :
            s \in DictShapes,
            ks \in {k \in KeySeqs : Len(k) = 1}, cs \in {<<1>>, <<2>>}}
    \cup {[shape |-> s, ks |-> ks, cs |-> cs] :
            s \in DictShapes,
            ks \in {k \in KeySeqs : Len(k) = 2},
            cs \in {<<1, 1>>, <<1, 2>>, <<2, 1>>, <<2, 2>>}}

\* the serialization of an attribute value of shape d
Serialized(d) ==
    CASE d.shape = "int" -> Leaf(1)
      [] d.shape = "list" -> ListOf(<<Leaf(1), Leaf(2)>>)
      [] d.shape = "list_in_list" -> ListOf(<<ListOf(<<Leaf(1)>>)>>)
      [] d.shape = "service" ->
            ServiceOf(<<Entry(a_value, Leaf(1)),
                        Entry(a_items, ListOf(<<Leaf(2)>>))>>)
      [] d.shape = "slider" ->
            [type |-> "NumberSlider", value |-> <<Entry(a_value, Leaf(1))>>]
      [] d.shape = "method" -> MethodOf(ResetParams)
      [] d.shape = "dict" -> InnerDict(d.ks, d.cs)
      [] d.shape = "dict_in_dict" -> DictOf(<<Entry(k_x, InnerDict(d.ks, d.cs))>>)
      [] d.shape = "dict_in_list" -> ListOf(<<InnerDict(d.ks, d.cs)>>)

\* the service gains an attribute: its serialization gains an entry
AddAttr ==
    \E d \in Shapes :
        /\ ~flat.done
        /\ Len(tree) < MaxAttrs
        /\ tree' = Append(tree, Entry(AttrName(Len(tree) + 1), Serialized(d)))
        /\ UNCHANGED <<service, cache, last, flat, route, bus, conf, db, pending>>

\* the record of a get_props call: its result, the result of the call before
\* it, and the serialization the call started from
Flattened(r) ==
    /\ flat' = [done |-> TRUE, calls |-> flat.calls + 1, out |-> r.out,
                prev |-> flat.out, before |-> tree]
    /\ tree' = r.serialized
    /\ UNCHANGED <<service, cache, last, route, bus, conf, db, pending>>

\* a get_props request on the service `tree` serializes
Flatten ==
    /\ tree # <<>>
    /\ flat.calls < MaxCalls
    /\ Flattened(get_props(tree))

NextFlatten == AddAttr \/ Flatten

SpecFlatten == Init /\ [][NextFlatten]_vars

----------------------------------------------------------------------------
(* Path texts: rendered by the flattener, parsed by set_param *)

\* at most MaxSegs segments in a path
MaxSegs == 2

\* at most MaxKeyLen characters in a mapping key
MaxKeyLen == 2

\* a segment: an attribute name, a position of a sequence, a key of a mapping
Seg(kind, text, n) == [kind |-> kind, text |-> text, n |-> n]

AttrNames == {<<"a">>, <<"b", "0">>}
Indices == {0, 1, 12}
KeyChars == {"a", "0", ".", "[", "]", "\""}
KeyTexts == UNION {[1..n -> KeyChars] : n \in 0..MaxKeyLen}

Segments ==
    {Seg("attr", t, 0) : t \in AttrNames}
    \cup {Seg("index", <<>>, n) : n \in Indices}
    \cup {Seg("key", t, 0) : t \in KeyTexts}

\* the text of a path extended by one segment: an attribute after a dot, a
\* position and a key as flatten_obj_value writes them
RenderOnto(text, seg) ==
    CASE seg.kind = "index" -> IndexKey(text, seg.n)
      [] seg.kind = "key" -> QuotedKey(text, seg.text)
      [] OTHER -> IF text = <<>> THEN seg.text ELSE text \o <<Dot>> \o seg.text

RECURSIVE RenderFrom(_, _)
RenderFrom(text, segs) ==
    IF segs = <<>> THEN text
    ELSE RenderFrom(RenderOnto(text, Head(segs)), Tail(segs))

\* the full access path of the node reached by the segments
render(segs) == RenderFrom(<<>>, segs)

\* the segment get_object_by_path_parts reads from a part: the key between
\* `["` and `"]`, the number between `[` and `]`, or the attribute name
SegmentOf(part) ==
    IF Len(part) >= 4 /\ part[1] = "[" /\ part[2] = "\""
    THEN Seg("key", SubSeq(part, 3, Len(part) - 2), 0)
    ELSE IF part[1] = "["
    THEN Seg("index", <<>>, ParseNat(SubSeq(part, 2, Len(part) - 1)))
    ELSE Seg("attr", part, 0)

\* a path grows by a segment; it starts with an attribute of the service
AddSegment ==
    \E seg \in Segments :
        /\ ~route.done
        /\ Len(route.segs) < MaxSegs
        /\ route.segs = <<>> => seg.kind = "attr"
        /\ route' = [route EXCEPT !.segs = Append(@, seg)]
        /\ UNCHANGED <<service, cache, last, tree, flat, bus, conf, db, pending>>

\* the path is rendered for the remote side and the text comes back in a
\* set_param request, which parses it
RoundTrip ==
    /\ ~route.done
    /\ route.segs # <<>>
    /\ route' = [segs |-> route.segs, text |-> render(route.segs),
                 parts |-> parse_full_access_path(render(route.segs)),
                 done |-> TRUE]
    /\ UNCHANGED <<service, cache, last, tree, flat, bus, conf, db, pending>>

NextPath == AddSegment \/ RoundTrip

SpecPath == Init /\ [][NextPath]_vars

----------------------------------------------------------------------------
(* Delivery of a change event to the notification callbacks *)

\* at most MaxObservers callbacks registered with the observer
MaxObservers == 3

\* at most MaxEvents changes of the tree in a run
MaxEvents == 2

\* callbacks other parts of the service register besides notify_ionizer
OtherObservers == {"web", "log"}

\* what a callback does when it is called: it returns or it raises
Outcomes == {"returns", "raises"}

Registered == {bus.observers[i] : i \in 1..Len(bus.observers)}

\* add_notification_callback: the callback is appended to the list
Register ==
    \E o \in OtherObservers \ Registered :
        /\ bus.pc = "idle"
        /\ Len(bus.observers) < MaxObservers
        /\ bus' = [bus EXCEPT !.observers = Append(@, o)]
        /\ UNCHANGED <<service, cache, last, tree, flat, route, conf, db, pending>>

\* the assignment of `new` at the path: the attribute is set, the cache entry
\* refreshed, and the callbacks are about to be called from inside the
\* assignment, which has not returned yet
Assigning(path, parts, cur, new) ==
    /\ new # cur
    /\ service' = SetAt(service, parts, new)
    /\ cache' = SetNested(cache, parts, Dump(new, FALSE))
    /\ bus' = [bus EXCEPT !.pc = "notifying", !.at = 1, !.delivered = <<>>,
                          !.handed = <<>>, !.setattr = "running",
                          !.events = @ + 1, !.path = path, !.value = new]
    /\ UNCHANGED <<last, tree, flat, route, conf, db, pending>>

\* the owning service assigns one of its attributes
BeginChange ==
    \E path \in {a_gain, a_mode}, n \in WireInts :
        /\ bus.pc = "idle"
        /\ bus.events < MaxEvents
        /\ Assigning(path, parse_full_access_path(path),
                     get_object_attr_from_path(service, path).val,
                     SameKind(get_object_attr_from_path(service, path).val, n))

\* the callback o was called with the event and ended with `outcome`; msg is
\* what notify_ionizer hands to server._handler.notify. An exception leaves
\* the loop over the callbacks and the assignment; after the last callback
\* the assignment returns
Called(o, outcome, msg) ==
    /\ bus' = IF outcome = "raises" \/ (o = "ionizer" /\ msg.err # "none")
              THEN [bus EXCEPT !.pc = "idle", !.setattr = "raised"]
              ELSE [bus EXCEPT
                       !.delivered = Append(@, o),
                       !.handed = IF o = "ionizer" THEN Append(@, msg.val) ELSE @,
                       !.at = @ + 1,
                       !.pc = IF bus.at = Len(bus.observers)
                              THEN "idle" ELSE "notifying",
                       !.setattr = IF bus.at = Len(bus.observers)
                                   THEN "returned" ELSE "running"]
    /\ UNCHANGED <<service, cache, last, tree, flat, route, conf, db, pending>>

\* the next callback in registration order is called
Deliver ==
    \E outcome \in Outcomes :
        /\ bus.pc = "notifying"
        /\ Called(bus.observers[bus.at], outcome,
                  notify_ionizer(service, bus.path, bus.value))

NextNotify == Register \/ BeginChange \/ Deliver

SpecNotify == Init /\ [][NextNotify]_vars

----------------------------------------------------------------------------
(* create_config *)

\* at most MaxCreates calls of create_config in a run
MaxCreates == 3

\* a config source: None, or a FileSource on the file at folder / file
Source(kind, folder, file) == [kind |-> kind, folder |-> folder, file |-> file]
NoSource == Source("None", "", "")

\* the config classes: their name and their CONFIG_SOURCES class attribute
ConfigClasses ==
    {[name |-> "DummyConfigNoSource", CONFIG_SOURCES |-> NoSource],
     [name |-> "DummyConfigWithSource",
      CONFIG_SOURCES |-> Source("FileSource", "tmp_path", "dummy.yaml")]}

\* the config_folder argument: None by default, or a folder
Folders == {"None", "database_config", "my_config"}

\* the config_file argument: "" by default
Files == {"", "dummy.yaml"}

\* error_msg, lines 27-32
error_msg ==
    <<"N", "o", " ", "'", "d", "a", "t", "a", "b", "a", "s", "e", "_", "c",
      "o", "n", "f", "i", "g", "'", " ", "f", "o", "l", "d", "e", "r", " ",
      "f", "o", "u", "n", "d", " ", "i", "n", " ", "t", "h", "e", " ", "r",
      "o", "o", "t", " ", "d", "i", "r", "e", "c", "t", "o", "r", "y", ".",
      " ", "P", "l", "e", "a", "s", "e", " ", "e", "n", "s", "u", "r", "e",
      " ", "t", "h", "a", "t", " ", "a", " ", "'", "d", "a", "t", "a", "b",
      "a", "s", "e", "_", "c", "o", "n", "f", "i", "g", "'", " ", "f", "o",
      "l", "d", "e", "r", " ", "e", "x", "i", "s", "t", "s", " ", "i", "n",
      " ", "y", "o", "u", "r", " ", "p", "r", "o", "j", "e", "c", "t", "'",
      "s", " ", "r", "o", "o", "t", " ", "d", "i", "r", "e", "c", "t", "o",
      "r", "y", ".", " ", "A", "l", "t", "e", "r", "n", "a", "t", "i", "v",
      "e", "l", "y", ",", " ", "y", "o", "u", " ", "c", "a", "n", " ", "p",
      "r", "o", "v", "i", "d", "e", " ", "a", " ", "d", "i", "f", "f", "e",
      "r", "e", "n", "t", " ", "c", "o", "n", "f", "i", "g", " ", "f", "o",
      "l", "d", "e", "r", " ", "b", "y", " ", "p", "a", "s", "s", "i", "n",
      "g", " ", "i", "t", "s", " ", "p", "a", "t", "h", " ", "t", "o", " ",
      "t", "h", "e", " ", "c", "o", "n", "s", "t", "r", "u", "c", "t", "o",
      "r", ".">>

\* the outcome of a call: the exception raised and its message, or the config
\* object constructed; `logged` is what went to logger.error
Made(raised, message, config, logged) ==
    [raised |-> raised, message |-> message, config |-> config,
     logged |-> logged]

\* the source a confz config object is loaded from: the config_sources
\* argument when one is passed, the CONFIG_SOURCES of its class otherwise
LoadedFrom(config_class, config_sources) ==
    IF config_sources.kind # "None" THEN config_sources
    ELSE config_class.CONFIG_SOURCES

\* no config object
NoConfig ==
    [made |-> FALSE, class |-> "", config_sources |-> NoSource,
     loaded_from |-> NoSource]

\* config_class(config_sources=config_sources), line 25: the object, or the
\* error of the class when it cannot read its sources
Construct(config_class, config_sources, readable) ==
    IF readable
    THEN Made("none", <<>>,
              [made |-> TRUE, class |-> config_class.name,
               config_sources |-> config_sources,
               loaded_from |-> LoadedFrom(config_class, config_sources)], <<>>)
    ELSE Made("ConfigError", <<>>, NoConfig, <<>>)

\* create_config with the two tests joined by `and`
create_config_both(config_class, config_folder, config_file, readable) ==
    IF config_class.CONFIG_SOURCES.kind # "None" /\ config_folder # "None"
    THEN Construct(config_class,
                   IF config_folder # "None"
                   THEN Source("FileSource", config_folder, config_file)
                   ELSE NoSource,
                   readable)
    ELSE Made("NoConfigSourceError", error_msg,
              NoConfig, error_msg)

\* create_config that passes the file source only to a class without
\* CONFIG_SOURCES of its own
create_config_class_first(config_class, config_folder, config_file, readable) ==
    IF config_class.CONFIG_SOURCES.kind # "None" \/ config_folder # "None"
    THEN Construct(config_class,
                   IF config_folder # "None"
                      /\ config_class.CONFIG_SOURCES.kind = "None"
                   THEN Source("FileSource", config_folder, config_file)
                   ELSE NoSource,
                   readable)
    ELSE Made("NoConfigSourceError", error_msg, NoConfig, error_msg)

\* create_config, lines 16-35
create_config(config_class, config_folder, config_file, readable) ==
    IF config_class.CONFIG_SOURCES.kind # "None" \/ config_folder # "None"
    THEN Construct(config_class,
                   IF config_folder # "None"
                   THEN Source("FileSource", config_folder, config_file)
                   ELSE NoSource,
                   readable)
    ELSE Made("NoConfigSourceError", error_msg,
              NoConfig, error_msg)

\* the record of a call: its arguments, its outcome, the configs made so far
Created(config_class, config_folder, config_file, out) ==
    /\ conf' = [calls |-> conf.calls + 1, class |-> config_class,
                folder |-> config_folder, file |-> config_file, out |-> out,
                configs |-> conf.configs + (IF out.config.made THEN 1 ELSE 0)]
    /\ UNCHANGED <<service, cache, last, tree, flat, route, bus, db, pending>>

\* a call of create_config; `readable` says whether the class can read its sources
CreateConfig ==
    \E config_class \in ConfigClasses, config_folder \in Folders,
       config_file \in Files, readable \in BOOLEAN :
        /\ conf.calls < MaxCreates
        /\ Created(config_class, config_folder, config_file,
                   create_config(config_class, config_folder, config_file, readable))

NextConfig == CreateConfig

SpecConfig == Init /\ [][NextConfig]_vars

----------------------------------------------------------------------------
(* Database sessions *)

\* at most MaxSessions sessions are constructed in a run, and at most MaxOps
\* operations are made inside one with-block
MaxSessions == 2
MaxOps == 2

\* influxdb_session.py, line 30
BUCKET_ALREADY_EXISTS == 422

\* the session classes; "icon.InfluxDBSession" is the class of
\* icon_service_base, whose constructor reads its config through create_config
Kinds ==
    {"InfluxDBSession", "icon.InfluxDBSession", "InfluxDBv1Session",
     "InfluxDBv3Session", "PostgresDatabaseSession"}

InfluxKinds == {"InfluxDBSession", "icon.InfluxDBSession"}

\* the buckets of the servers and the records written
Buckets == {"test-bucket", "other-bucket"}
Records == {"temperature", "pressure"}

\* the value of SERVICE_DATABASE_CONFIG_DIR in the environment
EnvDirs == {"unset", "/tmp/myconfigs"}

\* the path argument of from_config_file: None (no component), or a file
NonePath == <<>>
PathArgs == {NonePath, <<"my", "influx.yaml">>}

\* ServiceConfig(), config.py lines 14-17
ServiceConfig(env) ==
    [database_config_dir |-> IF env = "unset" THEN "database_config" ELSE env]

\* the text of the configuration files on disk
Yaml(file) ==
    IF file = <<"database_config", "influxdbv3_config.yaml">>
    THEN [url |-> "http://localhost:9999", org |-> "test-org",
          bucket |-> "test-bucket", token |-> "test-token",
          verify_ssl |-> "false"]
    ELSE IF file = <<"/tmp/myconfigs", "influxdbv3_config.yaml">>
    THEN [url |-> "http://env:8181", org |-> "env-org",
          bucket |-> "other-bucket", token |-> "env-token",
          verify_ssl |-> "absent"]
    ELSE [url |-> "http://path:8181", org |-> "path-org",
          bucket |-> "other-bucket", token |-> "path-token",
          verify_ssl |-> "true"]

\* InfluxDBv3Config(config_sources=FileSource(file)), config.py lines 46-51:
\* the token is a SecretStr, verify_ssl is True when the file leaves it out
InfluxDBv3Config(file) ==
    [url |-> Yaml(file).url, org |-> Yaml(file).org,
     token |-> [secret |-> Yaml(file).token],
     verify_ssl |-> Yaml(file).verify_ssl # "false",
     bucket |-> Yaml(file).bucket]

get_secret_value(token) == token.secret

\* InfluxDBv3Session.__init__, lines 24-40: the client is constructed, with
\* the bucket as its database
InfluxDBv3Session(host, org, bucket, token, verify_ssl) ==
    [session |-> [host |-> host, org |-> org, bucket |-> bucket,
                  token |-> token, verify_ssl |-> verify_ssl],
     client |-> [state |-> "open", database |-> bucket]]

\* from_config_file that reads the default directory whatever the environment
from_config_file_fixed_dir(path, env) ==
    InfluxDBv3Session(
        InfluxDBv3Config(IF path # NonePath THEN path
                         ELSE <<"database_config", "influxdbv3_config.yaml">>).url,
        InfluxDBv3Config(IF path # NonePath THEN path
                         ELSE <<"database_config", "influxdbv3_config.yaml">>).org,
        InfluxDBv3Config(IF path # NonePath THEN path
                         ELSE <<"database_config", "influxdbv3_config.yaml">>).bucket,
        get_secret_value(
            InfluxDBv3Config(IF path # NonePath THEN path
                             ELSE <<"database_config", "influxdbv3_config.yaml">>).token),
        InfluxDBv3Config(IF path # NonePath THEN path
                         ELSE <<"database_config", "influxdbv3_config.yaml">>).verify_ssl)

\* the file from_config_file reads, lines 96-105
ConfigFileOf(path, env) ==
    IF path # NonePath THEN path
    ELSE <<ServiceConfig(env).database_config_dir, "influxdbv3_config.yaml">>

\* InfluxDBv3Session.from_config_file, lines 78-112
from_config_file(path, env) ==
    InfluxDBv3Session(InfluxDBv3Config(ConfigFileOf(path, env)).url,
                      InfluxDBv3Config(ConfigFileOf(path, env)).org,
                      InfluxDBv3Config(ConfigFileOf(path, env)).bucket,
                      get_secret_value(InfluxDBv3Config(ConfigFileOf(path, env)).token),
                      InfluxDBv3Config(ConfigFileOf(path, env)).verify_ssl)

\* InfluxDBClient3.write(record): the record goes to the database of the client
ClientWrite(client, store, record) ==
    [store EXCEPT ![client.database] = @ \cup {record}]

\* InfluxDBv3Session.write, lines 54-76
InfluxDBv3Session_write(client, store, bucket, record) ==
    ClientWrite(client, store, record)

\* BucketsApi.create_bucket on the server: an ApiException of status 422 for a
\* bucket that exists, of status `fault` when the server fails, and the
\* bucket created otherwise (status 0)
BucketsApi_create_bucket(buckets, bucket_name, fault) ==
    IF bucket_name \in buckets
    THEN [status |-> BUCKET_ALREADY_EXISTS, buckets |-> buckets]
    ELSE IF fault # 0 THEN [status |-> fault, buckets |-> buckets]
    ELSE [status |-> 0, buckets |-> buckets \cup {bucket_name}]

\* create_bucket that lets every ApiException but the 422 through
create_bucket_reraise(buckets, bucket_name, fault) ==
    [status |-> BucketsApi_create_bucket(buckets, bucket_name, fault).status,
     buckets |-> BucketsApi_create_bucket(buckets, bucket_name, fault).buckets,
     raised |-> IF BucketsApi_create_bucket(buckets, bucket_name, fault).status
                   \in {0, BUCKET_ALREADY_EXISTS}
                THEN "none" ELSE "ApiException",
     returned |-> IF BucketsApi_create_bucket(buckets, bucket_name, fault).status
                     \in {0, BUCKET_ALREADY_EXISTS}
                  THEN "None" ELSE "none",
     logged |-> IF BucketsApi_create_bucket(buckets, bucket_name, fault).status
                   = BUCKET_ALREADY_EXISTS
                THEN "debug" ELSE "none"]

\* InfluxDBSession.create_bucket, lines 120-161
create_bucket(buckets, bucket_name, fault) ==
    [status |-> BucketsApi_create_bucket(buckets, bucket_name, fault).status,
     buckets |-> BucketsApi_create_bucket(buckets, bucket_name, fault).buckets,
     raised |-> "none",
     returned |-> "None",
     logged |-> IF BucketsApi_create_bucket(buckets, bucket_name, fault).status = 0
                THEN "none"
                ELSE IF BucketsApi_create_bucket(buckets, bucket_name, fault).status
                        = BUCKET_ALREADY_EXISTS
                THEN "debug" ELSE "error"]

\* __init__ of the session classes: the exception raised, and the client held
\* when the constructor returns. InfluxDBSession of pydase_service_base calls
\* ServiceConfig(), a name its module does not import.
session_init(kind, bucket) ==
    IF kind = "InfluxDBSession"
    THEN [raised |-> "NameError", client |-> [state |-> "none", database |-> ""]]
    ELSE IF kind = "InfluxDBv3Session"
    THEN [raised |-> "none",
          client |-> InfluxDBv3Session("http://localhost:8181", "test-org",
                                       bucket, "admin-token", FALSE).client]
    ELSE IF kind = "PostgresDatabaseSession"
    THEN [raised |-> "none", client |-> [state |-> "open", database |-> ""]]
    ELSE [raised |-> "none", client |-> [state |-> "none", database |-> ""]]

\* __enter__ of the session classes: the client and the write api afterwards
session_enter(kind, client, write_api) ==
    IF kind \in InfluxKinds
    THEN [client |-> [state |-> "open", database |-> ""], write_api |-> "open"]
    ELSE IF kind = "InfluxDBv1Session"
    THEN [client |-> [state |-> "open", database |-> "database"],
          write_api |-> write_api]
    ELSE [client |-> client, write_api |-> write_api]

\* __exit__ that closes only after a block that ended normally
session_exit_on_success(kind, client, write_api, exc) ==
    IF exc = "none"
    THEN [client |-> [client EXCEPT !.state = "closed"],
          write_api |-> IF kind \in InfluxKinds THEN "closed" ELSE write_api,
          returned |-> "None"]
    ELSE [client |-> client, write_api |-> write_api, returned |-> "None"]

\* __exit__ of the session classes: every one closes what it holds and
\* returns None
session_exit(kind, client, write_api, exc) ==
    [client |-> [client EXCEPT !.state = "closed"],
     write_api |-> IF kind \in InfluxKinds THEN "closed" ELSE write_api,
     returned |-> "None"]

NoOp ==
    [name |-> "none", bucket |-> "", record |-> "", status |-> 0,
     raised |-> "none", returned |-> "none", logged |-> "none"]

\* a session is constructed: K()
Constructed(kind, made, from) ==
    /\ db.pc \in {"none", "left", "failed"}
    /\ db.sessions < MaxSessions
    /\ db' = [db EXCEPT !.sessions = @ + 1,
                        !.kind = kind,
                        !.pc = IF made.raised = "none" THEN "constructed"
                               ELSE "failed",
                        !.session = made.session,
                        !.client = made.client,
                        !.write_api = "none",
                        !.from = from,
                        !.ops = 0,
                        !.op = NoOp,
                        !.exc = "none",
                        !.propagated = made.raised]
    /\ UNCHANGED <<service, cache, last, tree, flat, route, bus, conf, pending>>

NewSession ==
    \E kind \in Kinds, bucket \in Buckets :
        Constructed(kind,
                    [raised |-> session_init(kind, bucket).raised,
                     client |-> session_init(kind, bucket).client,
                     session |-> IF kind = "InfluxDBv3Session"
                                 THEN InfluxDBv3Session("http://localhost:8181",
                                          "test-org", bucket, "admin-token",
                                          FALSE).session
                                 ELSE [host |-> "", org |-> "", bucket |-> "",
                                       token |-> "", verify_ssl |-> TRUE]],
                    [used |-> FALSE, path |-> NonePath, env |-> "unset"])

FromConfigFile ==
    \E path \in PathArgs, env \in EnvDirs :
        Constructed("InfluxDBv3Session",
                    [raised |-> "none",
                     client |-> from_config_file(path, env).client,
                     session |-> from_config_file(path, env).session],
                    [used |-> TRUE, path |-> path, env |-> env])

\* with K() as session: __enter__
Enter ==
    /\ db.pc = "constructed"
    /\ db' = [db EXCEPT !.pc = "entered",
                        !.client = session_enter(db.kind, db.client, db.write_api).client,
                        !.write_api = session_enter(db.kind, db.client, db.write_api).write_api]
    /\ UNCHANGED <<service, cache, last, tree, flat, route, bus, conf, pending>>

\* session.write(bucket, record) inside the block of an InfluxDBv3Session
Write ==
    \E bucket \in Buckets, record \in Records :
        /\ db.pc = "entered"
        /\ db.kind = "InfluxDBv3Session"
        /\ db.ops < MaxOps
        /\ db' = [db EXCEPT !.ops = @ + 1,
                            !.store = InfluxDBv3Session_write(db.client, db.store,
                                                              bucket, record),
                            !.op = [NoOp EXCEPT !.name = "write",
                                                !.bucket = bucket,
                                                !.record = record,
                                                !.returned = "None"]]
        /\ UNCHANGED <<service, cache, last, tree, flat, route, bus, conf, pending>>

\* session.create_bucket(bucket_name=...) inside the block of an InfluxDBSession
CreateBucket ==
    \E bucket_name \in Buckets, fault \in {0, 500} :
        /\ db.pc = "entered"
        /\ db.kind \in InfluxKinds
        /\ db.ops < MaxOps
        /\ db' = [db EXCEPT !.ops = @ + 1,
                            !.buckets = create_bucket(db.buckets, bucket_name, fault).buckets,
                            !.op = [name |-> "create_bucket",
                                    bucket |-> bucket_name,
                                    record |-> "",
                                    status |-> create_bucket(db.buckets, bucket_name, fault).status,
                                    raised |-> create_bucket(db.buckets, bucket_name, fault).raised,
                                    returned |-> create_bucket(db.buckets, bucket_name, fault).returned,
                                    logged |-> create_bucket(db.buckets, bucket_name, fault).logged]]
        /\ UNCHANGED <<service, cache, last, tree, flat, route, bus, conf, pending>>

\* the block is left, at its end or by the exception `exc`: __exit__ is
\* called, and the with statement raises exc again unless __exit__ returned
\* a true value
Left(exc) ==
    /\ db' = [db EXCEPT !.pc = "left",
                        !.client = session_exit(db.kind, db.client, db.write_api, exc).client,
                        !.write_api = session_exit(db.kind, db.client, db.write_api, exc).write_api,
                        !.exc = exc,
                        !.propagated =
                            IF session_exit(db.kind, db.client, db.write_api, exc).returned = "None"
                            THEN exc ELSE "none"]
    /\ UNCHANGED <<service, cache, last, tree, flat, route, bus, conf, pending>>

Leave ==
    /\ db.pc = "entered"
    /\ \E exc \in {"none", "ValueError"} : Left(exc)

NextDatabase == NewSession \/ FromConfigFile \/ Enter \/ Write \/ CreateBucket \/ Leave

SpecDatabase == Init /\ [][NextDatabase]_vars

----------------------------------------------------------------------------
(* What the claims speak about *)

\* the object at a path of a tree (a getter-backed attribute yields its result)
AttrAt(svc, path) == get_object_attr_from_path(svc, path).val

\* the last operation was set_param(path, n) on a stored attribute that held
\* a value of the given kind
WroteTo(kind) ==
    /\ last.op = "set_param"
    /\ last.path \notin ComputedPaths
    /\ AttrAt(last.pre, last.path).kind = kind

\* the declared name and the underlying value of an enum member
NameOf(member) == EnumList(member.cls)[member.idx].name
ValueOf(member) == EnumList(member.cls)[member.idx].value

\* the last operation changed an attribute and a notification went out
Notified1 ==
    /\ last.op \in {"set_param", "service_change"}
    /\ last.published # <<>>

----------------------------------------------------------------------------
(* C1: for a stored attribute holding a member of enumeration E and an integer
   i with 0 <= i < len(E), set_param(path, i) does not fail and leaves the
   attribute holding exactly the i-th member of E in declaration order. *)
C1_OrdinalSelectsMember ==
    (/\ WroteTo("Enum")
     /\ 0 <= last.value.n
     /\ last.value.n < Len(EnumList(AttrAt(last.pre, last.path).cls)))
    => /\ last.err = "none"
       /\ AttrAt(service, last.path)
            = EnumVal(AttrAt(last.pre, last.path).cls, last.value.n + 1)

\* mode held OFF and set_param("mode", 2) made it AUTO
C1_Witness ==
    /\ WroteTo("Enum")
    /\ last.path = a_mode
    /\ last.value.n = 2
    /\ AttrAt(last.pre, a_mode) = EnumVal("Mode", 1)
    /\ AttrAt(service, a_mode) = EnumVal("Mode", 3)

(* C2, as stated: get_param on an enum-valued attribute returns the declared
   name of the current member as a string, and a change notification for an
   enum value carries the member's name. *)
C2_ReadsMemberName ==
    /\ (/\ last.op = "get_param"
        /\ last.err = "none"
        /\ AttrAt(service, last.path).kind = "Enum")
       => /\ last.result.kind = "str"
          /\ last.result.s = NameOf(AttrAt(service, last.path))
    /\ (Notified1 /\ AttrAt(service, last.path).kind = "Enum")
       => /\ last.published[1].value.kind = "str"
          /\ last.published[1].value.s = NameOf(AttrAt(service, last.path))

(* C2, amended: get_param on an enum-valued attribute returns the underlying
   value of the current member (member.value), and a change notification for
   an enum value carries that same underlying value; neither is the name. *)
C2_ReadsMemberValue ==
    /\ (/\ last.op = "get_param"
        /\ last.err = "none"
        /\ AttrAt(service, last.path).kind = "Enum")
       => last.result = IntVal(ValueOf(AttrAt(service, last.path)))
    /\ (Notified1 /\ AttrAt(service, last.path).kind = "Enum")
       => last.published[1].value = IntVal(ValueOf(AttrAt(service, last.path)))

\* mode holds ON (value 20) and get_param("mode") returned 20
C2_Witness ==
    /\ last.op = "get_param"
    /\ last.path = a_mode
    /\ AttrAt(service, a_mode) = EnumVal("Mode", 2)
    /\ last.result = IntVal(20)

(* C3: for a stored enum-valued attribute and an integer i that is not a
   zero-based position of E (i >= len(E) or i < 0), set_param(path, i) fails
   with an out-of-range error and the attribute keeps its member. *)
C3_OrdinalOutOfRangeRejected ==
    (/\ WroteTo("Enum")
     /\ \/ last.value.n < 0
        \/ last.value.n >= Len(EnumList(AttrAt(last.pre, last.path).cls)))
    => /\ last.err = "IndexError"
       /\ AttrAt(service, last.path) = AttrAt(last.pre, last.path)

(* C4: for a stored attribute holding a quantity with unit U and a numeric
   magnitude m, set_param(path, m) does not fail, a following get_param(path)
   returns m, and the attribute holds the quantity (m, U). *)
C4_MagnitudeKeepsUnit ==
    WroteTo("Quantity")
    => /\ last.err = "none"
       /\ get_param(service, last.path).val = last.value
       /\ AttrAt(service, last.path)
            = Qty(last.value.n, AttrAt(last.pre, last.path).u)

\* gain held (2, dB) and set_param("gain", 3) made it (3, dB)
C4_Witness ==
    /\ WroteTo("Quantity")
    /\ last.path = a_gain
    /\ last.value.n = 3
    /\ AttrAt(last.pre, a_gain) = Qty(2, "dB")
    /\ AttrAt(service, a_gain) = Qty(3, "dB")

(* C5: when the changed attribute is the `value` member of a NumberSlider at
   path P, the published notification carries the text P as its name. *)
C5_WidgetNotificationName ==
    \A P \in {p_slider, p_knob} :
        (Notified1 /\ last.path \in {P, P \o <<Dot>> \o a_value})
        => /\ last.published[1].name.kind = "str"
           /\ last.published[1].name.s = P

(* C6: get_param on the path of a NumberSlider returns the read-coerced inner
   value: the bare magnitude when the inner value is a quantity, the inner
   value itself otherwise; never the widget and never a quantity. *)
C6_WidgetReadsInnerValue ==
    (last.op = "get_param" /\ AttrAt(service, last.path).kind = "NumberSlider")
    => /\ last.err = "none"
       /\ last.result.kind \notin {"NumberSlider", "Quantity"}
       /\ last.result
            = IF AttrAt(service, last.path).value.kind = "Quantity"
              THEN IntVal(AttrAt(service, last.path).value.m)
              ELSE AttrAt(service, last.path).value

\* the slider holds (3, V) and get_param("panel.slider") returned 3
C6_Witness ==
    /\ last.op = "get_param"
    /\ last.path = p_slider
    /\ AttrAt(service, p_slider).value = Qty(3, "V")
    /\ last.result = IntVal(3)

(* C7: set_param(P, m) on the path P of a NumberSlider is applied to P.value:
   the widget at P stays the same widget, its inner value becomes m (with the
   unit U the inner quantity had, when it was a quantity), and a following
   get_param(P) returns m. *)
C7_WidgetWriteTargetsValue ==
    WroteTo("NumberSlider")
    => /\ last.err = "none"
       /\ AttrAt(service, last.path).kind = "NumberSlider"
       /\ AttrAt(service, last.path).id = AttrAt(last.pre, last.path).id
       /\ AttrAt(service, last.path).value
            = IF AttrAt(last.pre, last.path).value.kind = "Quantity"
              THEN Qty(last.value.n, AttrAt(last.pre, last.path).value.u)
              ELSE last.value
       /\ get_param(service, last.path).val = last.value

\* the slider held (1, V) and set_param("panel.slider", 3) made it (3, V)
C7_Witness ==
    /\ WroteTo("NumberSlider")
    /\ last.path = p_slider
    /\ last.value.n = 3
    /\ AttrAt(last.pre, p_slider).value = Qty(1, "V")
    /\ AttrAt(service, p_slider) = Slider(1, Qty(3, "V"))

(* C8: set_param on a computed (property) attribute is a silent no-op: for
   every wire value it does not raise, and get_param on that attribute returns
   the same value after the call as before it. *)
C8_ComputedWriteIsNoOp ==
    (last.op = "set_param" /\ last.path \in ComputedPaths)
    => /\ last.err = "none"
       /\ get_param(service, last.path).val = get_param(last.pre, last.path).val

(* C9: during set_param the getter of the attribute being overwritten is
   never evaluated when that attribute is computed, whatever its getter
   returns. *)
C9_GetterNotEvaluated ==
    (last.op = "set_param" /\ last.path \in ComputedPaths)
    => Last(parse_full_access_path(last.path)) \notin last.evald

(* C10: flattening is injective: any two distinct leaves of a serialized tree
   receive distinct flattened keys, so no entry flatten_obj_value stores
   replaces one it stored before (also when a mapping holds a key that reads
   like an indexed path of a sibling, such as `a` and `a[0]`). *)
C10_FlattenInjective ==
    (flat.done /\ flat.out.err = "none") => flat.out.over = 0

\* the entries of a flattened mapping that are containers of further entries
\* without being composite widgets
PureContainers(mapping) ==
    SelectSeq(mapping, LAMBDA e : e.v.type \in {"DataService", "list", "dict"})

(* C11: the mapping get_props returns is flat: none of its entries is a pure
   container (a sub-service, a sequence or a mapping) that holds further
   entries; composite widgets are the only containers among the entries. *)
C11_OnlyLeavesAndWidgets ==
    (flat.done /\ flat.out.err = "none") => PureContainers(flat.out.val) = <<>>

\* the key of a flattened entry leads, from the root of the service, to the
\* node whose flattened form the entry holds
ResolvesBack(serialized, e, node) ==
    /\ node.err = "none"
    /\ node.val.type = e.v.type
    /\ flatten_obj(node.val).val = e.v

(* C12: every key of the mapping get_props returns resolves, from the root of
   the service, to the node of the original tree whose serialized form is
   stored under that key. *)
C12_KeysResolveBack ==
    (flat.done /\ flat.out.err = "none") =>
        \A i \in 1..Len(flat.out.val) :
            ResolvesBack(flat.before, flat.out.val[i],
                         NodeAt(update_method_serialization(flat.before),
                                flat.out.val[i].k))

(* C13: two get_props requests with no change of the tree between them return
   the same mapping, and the first leaves the service's serialization as it
   found it. *)
C13_FlattenRepeatable ==
    flat.calls >= 2 => (flat.out = flat.prev /\ tree = flat.before)

\* a second get_props request answered for a tree that holds containers
C13_Witness ==
    /\ flat.calls = 2
    /\ flat.out.err = "none"
    /\ PureContainers(flat.out.val) # <<>>
    /\ flat.out = flat.prev

\* how many double quotes a text holds
QuoteCount(t) == Len(SelectSeq(t, LAMBDA c : c = "\""))

(* C15: a mapping key that contains a double quote is rejected when a path is
   rendered for it: flattening never returns a key that embeds such a mapping
   key between `["` and `"]`, so every key returned holds at most the two
   quotes that delimit a mapping key. *)
C15_QuotedKeyRejected ==
    (flat.done /\ flat.out.err = "none") =>
        \A i \in 1..Len(flat.out.val) : QuoteCount(flat.out.val[i].k) <= 2

\* a valid path: the keys of its mapping segments hold no double quote
ValidPath(segs) ==
    \A i \in 1..Len(segs) : segs[i].kind = "key" => QuoteCount(segs[i].text) = 0

(* C14: path text round-trips: parsing the text rendered for a valid path
   (attributes joined with `.`, positions as `[N]`, keys as `["key"]`) yields
   one part for each segment of the path, in order, and each part reads back as
   the segment it was rendered from. *)
C14_PathRoundTrip ==
    (route.done /\ ValidPath(route.segs)) =>
        /\ Len(route.parts) = Len(route.segs)
        /\ \A i \in 1..Len(route.segs) : SegmentOf(route.parts[i]) = route.segs[i]

\* a path through a mapping key that itself reads like path syntax
C14_Witness ==
    /\ route.done
    /\ Len(route.segs) = 2
    /\ route.segs[2] = Seg("key", <<".", "[">>, 0)
    /\ route.parts = <<route.segs[1].text, <<"[", "\"", ".", "[", "\"", "]">> >>

(* C16: notification fan-out isolates failures: when the delivery of a change
   event is over, every registered observer was delivered the event, in
   registration order, and the assignment that produced the event returned
   normally, whatever an observer raised. *)
C16_FanOutIsolatesFailures ==
    (bus.pc = "idle" /\ bus.events > 0) =>
        (bus.delivered = bus.observers /\ bus.setattr = "returned")

(* C17: notification dispatch is decoupled from the mutation: while the event
   of a change is still being delivered to the observers, the assignment that
   produced it has already returned. *)
C17_DispatchDecoupled ==
    bus.pc = "notifying" => bus.setattr = "returned"

\* "reset(level, hold)"
ResetSignature ==
    StrVal(<<"r", "e", "s", "e", "t", "(", "l", "e", "v", "e", "l", ",", " ",
             "h", "o", "l", "d", ")">>)

\* the names under which an entry of get_props lists a method's parameters
ParameterNames(entries) ==
    [i \in 1..Len(entries[1].v.parameters) |-> entries[1].v.parameters[i].k]

(* C18: reading a callable member never invokes it: get_param on the path of
   a method returns the text of its call signature, the method's name followed
   by its parameter names in declared order, and get_props lists the method
   with its parameter names in that order; in neither request does the body of
   the method run. *)
C18_MethodsDescribedNotCalled ==
    /\ (last.op = "get_param" /\ last.path = a_reset) =>
           /\ last.err = "none"
           /\ last.result = ResetSignature
           /\ a_reset \notin last.evald
    /\ last.op = "get_props" =>
           /\ a_reset \notin last.evald
           /\ Len(EntriesAt(last.result.entries, a_reset)) = 1
           /\ EntriesAt(last.result.entries, a_reset)[1].v.type = "method"
           /\ ParameterNames(EntriesAt(last.result.entries, a_reset))
                  = <<a_level, a_hold>>

\* get_param on the method `reset` answered with its signature
C18_Witness ==
    /\ last.op = "get_param"
    /\ last.path = a_reset
    /\ last.result = ResetSignature

(* C19: the read requests and the notification callback leave the tree alone:
   after get_param or get_props the live tree and the cached serialization are
   what they were before the request, get_props leaves the serialization the
   service handed out equal to a fresh serialization of the service, and after
   a change of the tree notified to Ionizer the tree differs from the tree
   before only in the attribute that was assigned. *)
C19_ReadsLeaveTreeAlone ==
    /\ last.op \in {"get_param", "get_props"} =>
           (service = last.pre /\ cache = last.preCache)
    /\ last.op = "get_props" =>
           last.result.serialized = serialize(service).value
    /\ (last.op = "service_change" /\ last.err = "none") =>
           service = SetAt(last.pre, parse_full_access_path(last.path),
                           last.value)

\* get_props answered for a tree that was changed since construction
C19_Witness ==
    /\ last.op = "get_props"
    /\ last.err = "none"
    /\ service # InitService
    /\ Len(EntriesAt(last.result.serialized, a_reset)) = 1

\* the text holds `sub` as a contiguous part
Contains(text, sub) ==
    \E i \in 1..(Len(text) - Len(sub) + 1) :
        SubSeq(text, i, i + Len(sub) - 1) = sub

NoFolderFound ==
    <<"N", "o", " ", "'", "d", "a", "t", "a", "b", "a", "s", "e", "_", "c",
      "o", "n", "f", "i", "g", "'", " ", "f", "o", "l", "d", "e", "r", " ",
      "f", "o", "u", "n", "d">>

(* C20: create_config raises NoConfigSourceError exactly when the config class
   declares no CONFIG_SOURCES and no config_folder is given; the message then
   contains "No 'database_config' folder found" and no config object is
   constructed. *)
C20_NoConfigSourceError ==
    conf.calls > 0 =>
        /\ conf.out.raised = "NoConfigSourceError"
               <=> (conf.class.CONFIG_SOURCES.kind = "None" /\ conf.folder = "None")
        /\ conf.out.raised = "NoConfigSourceError" =>
               /\ Contains(conf.out.message, NoFolderFound)
               /\ ~conf.out.config.made

\* a call without any source, after a call that constructed a config
C20_Witness ==
    /\ conf.calls = 2
    /\ conf.configs = 1
    /\ conf.class.CONFIG_SOURCES.kind = "None"
    /\ conf.folder = "None"
    /\ conf.out.raised = "NoConfigSourceError"

(* C21: create_config selects its source by the arguments: with a
   config_folder the config is loaded from the file config_folder/config_file,
   also for a class that declares CONFIG_SOURCES; without a config_folder a
   class that declares CONFIG_SOURCES is loaded from its own sources. *)
C21_SourceSelectedByArguments ==
    (conf.calls > 0 /\ conf.out.raised = "none") =>
        /\ conf.out.config.made
        /\ conf.folder # "None" =>
               conf.out.config.loaded_from
                   = Source("FileSource", conf.folder, conf.file)
        /\ (conf.folder = "None" /\ conf.class.CONFIG_SOURCES.kind # "None") =>
               conf.out.config.loaded_from = conf.class.CONFIG_SOURCES

\* a folder given for a class that declares its own sources, after a call
\* that used the sources of the class
C21_Witness ==
    /\ conf.calls = 2
    /\ conf.configs = 2
    /\ conf.class.CONFIG_SOURCES.kind = "FileSource"
    /\ conf.folder = "my_config"
    /\ conf.file = "dummy.yaml"
    /\ conf.out.config.loaded_from = Source("FileSource", "my_config", "dummy.yaml")

\* the configuration file the documentation of from_config_file names for
\* the call recorded in db.from
ExpectedConfigFile ==
    IF db.from.path # NonePath THEN db.from.path
    ELSE <<IF db.from.env = "unset" THEN "database_config" ELSE db.from.env,
           "influxdbv3_config.yaml">>

(* C22: a session made by InfluxDBv3Session.from_config_file has the host,
   org, bucket, token and verify_ssl of the configuration file read: the file
   at `path` when one is given, otherwise influxdbv3_config.yaml in the
   database config directory (database_config, or the directory named by
   SERVICE_DATABASE_CONFIG_DIR). *)
C22_SessionFromConfigFile ==
    db.from.used =>
        /\ db.session.host = Yaml(ExpectedConfigFile).url
        /\ db.session.org = Yaml(ExpectedConfigFile).org
        /\ db.session.bucket = Yaml(ExpectedConfigFile).bucket
        /\ db.session.token = Yaml(ExpectedConfigFile).token
        /\ db.session.verify_ssl = (Yaml(ExpectedConfigFile).verify_ssl # "false")

\* a session read from the directory the environment names, entered
C22_Witness ==
    /\ db.from.used
    /\ db.from.path = NonePath
    /\ db.from.env = "/tmp/myconfigs"
    /\ db.session.host = "http://env:8181"
    /\ db.session.token = "env-token"
    /\ db.pc = "entered"

(* C23: after InfluxDBv3Session.write(bucket, record) the record is in the
   bucket named by the bucket argument, also when that bucket is not the one
   the session was constructed with. *)
C23_WriteGoesToNamedBucket ==
    db.op.name = "write" => db.op.record \in db.store[db.op.bucket]

(* C24: when the with-block of a database session is left, at its end or by
   an exception, the client or session it holds is closed (and the write api
   of an InfluxDBSession), and the exception raised in the block is raised to
   the caller. *)
C24_ExitClosesAndPropagates ==
    db.pc = "left" =>
        /\ db.client.state = "closed"
        /\ db.kind \in InfluxKinds => db.write_api = "closed"
        /\ db.propagated = db.exc

\* a second session, whose block was left by an exception after a write
C24_Witness ==
    /\ db.pc = "left"
    /\ db.sessions = 2
    /\ db.kind = "InfluxDBv3Session"
    /\ db.op.name = "write"
    /\ db.exc = "ValueError"

(* C25: InfluxDBSession.create_bucket raises nothing and returns None whatever
   the server answers: the 422 of a bucket that exists is logged at debug
   level, every other ApiException is logged as an error, and the client and
   the write api of the session stay open. *)
C25_CreateBucketSwallowsApiException ==
    db.op.name = "create_bucket" =>
        /\ db.op.raised = "none"
        /\ db.op.returned = "None"
        /\ db.op.status = BUCKET_ALREADY_EXISTS => db.op.logged = "debug"
        /\ db.op.status \notin {0, BUCKET_ALREADY_EXISTS} => db.op.logged = "error"
        /\ db.op.status = 0 => db.op.logged = "none"
        /\ db.pc = "entered" =>
               (db.client.state = "open" /\ db.write_api = "open")

\* a bucket created by the call that follows a call the server failed
C25_Witness ==
    /\ db.sessions = 1
    /\ db.pc = "entered"
    /\ db.ops = 2
    /\ db.op.name = "create_bucket"
    /\ db.op.status = 0
    /\ Cardinality(db.buckets) = 1

(* C26: flattening succeeds on every well-formed serialized tree, whatever its
   depth: get_props on a service that holds a sequence inside a sequence or
   inside a mapping returns a mapping and raises nothing. *)
C26_FlattenAnyDepth ==
    flat.done => flat.out.err = "none"

(* C27: notifications and reads use the same coercion: the message published
   for a change names a path, and a get_param of that path in the state right
   after the change returns the value the message carries. *)
C27_PublishedEqualsRead ==
    Notified1 =>
        /\ last.published[1].name.kind = "str"
        /\ get_param(service, last.published[1].name.s).err = "none"
        /\ get_param(service, last.published[1].name.s).val
               = last.published[1].value

\* the value a write to `path` replaces: the inner value of a widget, the
\* attribute itself otherwise
LiveTarget(svc, path) ==
    IF AttrAt(svc, path).kind = "NumberSlider" THEN AttrAt(svc, path).value
    ELSE AttrAt(svc, path)

(* C28: set_param coerces by the live target: an integer written to a target
   that holds a quantity right now is stored with the unit that quantity has
   right now, and an integer written to a target that holds an int right now
   is stored as it is, also while the cache still describes the value the
   service has replaced. *)
C28_CoercedByLiveTarget ==
    (last.op = "set_param" /\ last.value.kind = "int") =>
        /\ LiveTarget(last.pre, last.path).kind = "Quantity" =>
               /\ last.err = "none"
               /\ LiveTarget(service, last.path)
                      = Qty(last.value.n, LiveTarget(last.pre, last.path).u)
        /\ LiveTarget(last.pre, last.path).kind = "int" =>
               /\ last.err = "none"
               /\ LiveTarget(service, last.path) = IntVal(last.value.n)

(* C29: a set_param call that fails leaves the tree and the cached
   serialization as they were before the call. *)
C29_FailedWriteChangesNothing ==
    (last.op = "set_param" /\ last.err # "none") =>
        /\ service = last.pre
        /\ cache = last.preCache

\* an ordinal out of range refused after the tree had changed
C29_Witness ==
    /\ last.op = "set_param"
    /\ last.path = a_mode
    /\ last.err = "IndexError"
    /\ service # InitService
    /\ service = last.pre

\* the change event of the last operation, when it is the change of the
\* attribute at last.path itself
EventAtPath ==
    /\ Notified1
    /\ last.op = "set_param" => AttrAt(last.pre, last.path).kind # "NumberSlider"

(* C30: the callback rewrites a path only for the value of a composite
   widget: a change event whose last segment is not `value`, or whose parent
   object is not a NumberSlider, is published under its full access path. *)
C30_OtherPathsUnchanged ==
    (/\ EventAtPath
     /\ \/ Last(Split(last.path)) # a_value
        \/ AttrAt(service, Join(ButLast(Split(last.path)))).kind # "NumberSlider")
    => last.published[1].name = StrVal(last.path)

\* a change of panel.value, whose parent is a plain sub-service
C30_Witness ==
    /\ last.op = "service_change"
    /\ last.path = p_panel_value
    /\ last.published # <<>>
    /\ last.published[1].name = StrVal(p_panel_value)

====
